---- MODULE Spec2Model ----
(***************************************************************************)
(* A model of bert_multitask_learning/params.py: the BaseParams object,    *)
(* the checkpoint directories it reads and writes, and the operations      *)
(* add_problem, add_multiple_problems, assign_problem, to_json, from_json, *)
(* update_train_steps and set_data_sampling_strategy.                      *)
(*                                                                         *)
(* Conventions.  A Python str is a sequence of one-character strings, a    *)
(* list is a sequence, a dict is a function with a finite domain, None (of *)
(* an optional argument) is the empty sequence and a value v is <<v>>.     *)
(* An attribute that __init__ does not set exists on an object exactly     *)
(* when its name is in the object's field has.  Every method is an         *)
(* operator from the object (and the file system) to the object after the  *)
(* call and exc, the exception the call ends with ("none": it returns).    *)
(* A float is kept exact: a rate in millionths, a ratio as numerator and   *)
(* denominator.                                                            *)
(***************************************************************************)
EXTENDS Integers, Sequences, FiniteSets, TLC

VARIABLES objs, fs, saved, count_calls, last, calls

vars == <<objs, fs, saved, count_calls, last, calls>>

---------------------------------------------------------------------------
(* Bounds of the model. *)

MaxCalls == 2
MaxParseCalls == 2
MaxSamplingCalls == 3
MaxUpdateCalls == 3
MaxAddCalls == 3
MaxDataCalls == 4
MaxJsonCalls == 4
MaxReloadCalls == 6
MaxFlagLen == 3
MaxGpu == 2
MaxRowUnits == 2
RowUnit == 25
MaxClasses == 2
MaxSteps == 3
MaxEpoch == 2

---------------------------------------------------------------------------
(* Python strings, lists and dicts. *)

\* ord(c) of the characters the model uses.
Ord(c) ==
    CASE c = "&" -> 38
      [] c = "_" -> 95
      [] c = "a" -> 97
      [] c = "b" -> 98
      [] c = "c" -> 99
      [] c = "d" -> 100
      [] c = "e" -> 101
      [] c = "k" -> 107
      [] c = "p" -> 112
      [] c = "t" -> 116
      [] c = "|" -> 124

Range(l) == {l[i] : i \in 1..Len(l)}

\* s < t on str: lexicographic by code point.
RECURSIVE str_lt(_, _)
str_lt(s, t) ==
    IF t = <<>> THEN FALSE
    ELSE IF s = <<>> THEN TRUE
    ELSE IF Head(s) = Head(t) THEN str_lt(Tail(s), Tail(t))
    ELSE Ord(Head(s)) < Ord(Head(t))

RECURSIVE insert_sorted(_, _)
insert_sorted(x, l) ==
    IF l = <<>> THEN <<x>>
    ELSE IF str_lt(x, Head(l)) THEN <<x>> \o l
    ELSE <<Head(l)>> \o insert_sorted(x, Tail(l))

\* The list as it is given: a sort that was left out.
sorted_unsorted(l) == l

\* sorted(l) of a list of str (stable).
RECURSIVE sorted(_)
sorted(l) ==
    IF l = <<>> THEN <<>>
    ELSE insert_sorted(l[Len(l)], sorted(SubSeq(l, 1, Len(l) - 1)))

\* s.split(sep) and re.split('[&|]', s): the pieces of s between the
\* separators of seps, empty pieces kept.
RECURSIVE split(_, _)
split(s, seps) ==
    IF s = <<>> THEN << <<>> >>
    ELSE LET r == split(Tail(s), seps)
         IN  IF Head(s) \in seps THEN << <<>> >> \o r
             ELSE << <<Head(s)>> \o r[1] >> \o Tail(r)

\* sep.join(l)
RECURSIVE join(_, _)
join(l, sep) ==
    IF l = <<>> THEN <<>>
    ELSE IF Len(l) = 1 THEN l[1]
    ELSE l[1] \o sep \o join(Tail(l), sep)

EmptyDict == <<>>

\* F(v), with v evaluated once, before F sees it: the result of one step of
\* a method handed to the next.
Bind(v, F(_)) == CHOOSE y \in {F(x) : x \in {v}} : TRUE

\* d[k] = v
DictSet(d, k, v) == [x \in DOMAIN d \cup {k} |-> IF x = k THEN v ELSE d[x]]

Min(a, b) == IF a <= b THEN a ELSE b

Max(a, b) == IF a >= b THEN a ELSE b

---------------------------------------------------------------------------
(* BaseParams.__init__ *)

init_lr == 20
batch_size == 32
train_epoch == 15
dupe_factor == 10

\* The attributes assign_problem and the methods under it create; an object
\* holds a placeholder for each until has names it.
NewParams ==
    [ has |-> {},
      run_problem_list |-> <<>>,
      problem_type |-> EmptyDict,
      read_data_fn |-> EmptyDict,
      train_problem |-> <<>>,
      problem_assigned |-> FALSE,
      assigned_details |-> [kind |-> "tuple", flag_string |-> <<>>, gpu |-> 0,
                            base_dir |-> <<>>, dir_name |-> <<>>, predicting |-> FALSE],
      predicting |-> FALSE,
      problem_str |-> <<>>,
      problem_list |-> <<>>,
      problem_chunk |-> <<>>,
      ckpt_dir |-> [base |-> "", name |-> <<>>],
      params_path |-> [base |-> "", name |-> <<>>],
      init_weight_from_huggingface |-> FALSE,
      data_num_dict |-> EmptyDict,
      num_classes |-> EmptyDict,
      data_num |-> 0,
      problem_sampling_weight_dict |-> EmptyDict,
      shuffle_buffer |-> 0,
      train_steps |-> 0,
      train_steps_per_epoch |-> 0,
      num_warmup_steps |-> 0,
      lr |-> 0 ]

\* self.<name> = value, for an attribute created outside __init__
Has(self, name) == name \in self.has

---------------------------------------------------------------------------
(* add_problem, add_multiple_problems *)

ProblemTypes == {"cls", "seq_tag", "seq2seq_tag", "seq2seq_text", "multi_cls", "pretrain"}

\* A check of the problem type that lets every type through.
valid_problem_type_any(problem_type) == TRUE

valid_problem_type(problem_type) == problem_type \in ProblemTypes

add_problem(self, problem_name, problem_type, processing_fn) ==
    IF ~valid_problem_type(problem_type)
    THEN [self |-> self, exc |-> "ValueError"]
    ELSE [self |-> [self EXCEPT
                      !.problem_type = DictSet(@, problem_name, problem_type),
                      !.read_data_fn = DictSet(@, problem_name, processing_fn)],
          exc |-> "none"]

\* The loop of add_multiple_problems over the items of problem_type_dict,
\* given as the list of its keys in the order of the dict.
RECURSIVE add_multiple_problems_loop(_, _, _, _)
add_multiple_problems_loop(self, keys, problem_type_dict, processing_fn_dict) ==
    IF keys = <<>> THEN [self |-> self, exc |-> "none"]
    ELSE LET new_problem == Head(keys)
         IN  IF processing_fn_dict # EmptyDict /\ new_problem \notin DOMAIN processing_fn_dict
             THEN [self |-> self, exc |-> "KeyError"]
             ELSE LET new_problem_processing_fn ==
                          IF processing_fn_dict # EmptyDict
                          THEN processing_fn_dict[new_problem]
                          ELSE "None"
                      r == add_problem(self, new_problem, problem_type_dict[new_problem],
                                       new_problem_processing_fn)
                  IN  IF r.exc # "none" THEN r
                      ELSE add_multiple_problems_loop(r.self, Tail(keys),
                                                      problem_type_dict, processing_fn_dict)

add_multiple_problems(self, keys, problem_type_dict, processing_fn_dict) ==
    add_multiple_problems_loop(self, keys, problem_type_dict, processing_fn_dict)

---------------------------------------------------------------------------
(* parse_problem_string *)

\* The dict of one chunk: each problem of the chunk with its registered
\* type; the second field is FALSE when a problem is not registered
\* (self.problem_type[problem] raises KeyError).
chunk_problems(flag_chunk) ==
    IF "&" \notin Range(flag_chunk) THEN <<flag_chunk>> ELSE split(flag_chunk, {"&"})

chunk_registered(self, flag_chunk) ==
    \A p \in Range(chunk_problems(flag_chunk)) : p \in DOMAIN self.problem_type

chunk_type_dict(self, flag_chunk) ==
    [p \in Range(chunk_problems(flag_chunk)) |-> self.problem_type[p]]

\* The loop over flag_string.split('|'): run_problem_list and problem_chunk
\* as far as the loop gets.
RECURSIVE parse_chunks(_, _, _, _)
parse_chunks(self, flag_chunks, run_problem_list, problem_chunk) ==
    IF flag_chunks = <<>>
    THEN [run_problem_list |-> run_problem_list, problem_chunk |-> problem_chunk,
          exc |-> "none"]
    ELSE IF ~chunk_registered(self, Head(flag_chunks))
    THEN [run_problem_list |-> run_problem_list, problem_chunk |-> problem_chunk,
          exc |-> "KeyError"]
    ELSE parse_chunks(self, Tail(flag_chunks),
                      Append(run_problem_list, chunk_type_dict(self, Head(flag_chunks))),
                      Append(problem_chunk, chunk_problems(Head(flag_chunks))))

parse_problem_string(self, flag_string) ==
    LET r == parse_chunks(self, split(flag_string, {"|"}), <<>>, <<>>)
        s1 == [self EXCEPT !.problem_str = flag_string,
                           !.has = @ \cup {"problem_str"},
                           !.run_problem_list = r.run_problem_list]
    IN  IF r.exc # "none"
        THEN [self |-> s1, exc |-> r.exc, problem_list |-> <<>>, problem_chunk |-> <<>>]
        ELSE [self |-> IF s1.train_problem = <<>>
                       THEN [s1 EXCEPT !.train_problem = <<s1.run_problem_list>>]
                       ELSE s1,
              exc |-> "none",
              problem_list |-> sorted(split(flag_string, {"&", "|"})),
              problem_chunk |-> r.problem_chunk]

---------------------------------------------------------------------------
(* The file system: the directories that exist, those that hold a saved    *)
(* bert_config and tokenizer, and the data_info.json and params.json of a  *)
(* checkpoint directory, each keyed by the directory.                      *)

EmptyFs == [dirs |-> {}, config |-> {}, data_info |-> EmptyDict, params_json |-> EmptyDict]

\* os.path.join(base, dir_name)
path_join(base, dir_name) == [base |-> base, name |-> dir_name]

---------------------------------------------------------------------------
(* prepare_dir *)

\* from_config_exists: whether init_checkpoint holds a bert_config (the
\* checkpoint is then copied; otherwise the configuration comes from the
\* transformers hub).  No decoder is configured
\* (transformer_decoder_model_name stays None).
prepare_dir(self, files, base_dir, dir_name, problem_list, from_config_exists) ==
    LET base == IF base_dir # <<>> THEN base_dir[1] ELSE "models"
        dname == IF dir_name # <<>> THEN dir_name[1]
                 ELSE join(problem_list, <<"_">>) \o <<"_", "c", "k", "p", "t">>
        ckpt == path_join(base, dname)
        s1 == [self EXCEPT !.ckpt_dir = ckpt,
                           !.params_path = ckpt,
                           !.has = @ \cup {"ckpt_dir", "params_path"}]
        done(s, f) ==
            [self |-> [s EXCEPT !.has = @ \cup {"bert_config", "bert_config_dict",
                                                "vocab_size"}],
             fs |-> f, exc |-> "none"]
    IN  IF ~self.predicting
        THEN done([s1 EXCEPT !.init_weight_from_huggingface = ~from_config_exists,
                             !.has = @ \cup {"init_weight_from_huggingface"}],
                  [files EXCEPT !.dirs = @ \cup {ckpt}, !.config = @ \cup {ckpt}])
        ELSE IF ckpt \notin files.config
        THEN \* load_transformer_config(to_config_path) finds no config
             [self |-> s1, fs |-> files, exc |-> "OSError"]
        ELSE done([s1 EXCEPT !.init_weight_from_huggingface = FALSE,
                             !.has = @ \cup {"init_weight_from_huggingface"}],
                  files)

---------------------------------------------------------------------------
(* get_data_info *)

\* The loop over problem_list: env[problem] is what
\* read_data_fn[problem](self, 'train', get_data_num=True) returns when it
\* is called; counted lists the problems it was called for.
RECURSIVE count_loop(_, _, _, _)
count_loop(self, problems, env, counted) ==
    IF problems = <<>> THEN [self |-> self, exc |-> "none", counted |-> counted]
    ELSE LET problem == Head(problems)
         IN  IF problem \notin DOMAIN self.data_num_dict
             THEN IF problem \notin DOMAIN self.read_data_fn
                  THEN [self |-> self, exc |-> "KeyError", counted |-> counted]
                  ELSE IF self.read_data_fn[problem] = "None"
                  THEN [self |-> self, exc |-> "TypeError", counted |-> counted]
                  ELSE count_loop(
                         [self EXCEPT
                            !.data_num_dict = DictSet(@, problem, env[problem].rows),
                            !.num_classes = DictSet(@, problem, env[problem].classes),
                            !.data_num = @ + env[problem].rows],
                         Tail(problems), env, Append(counted, problem))
             ELSE count_loop([self EXCEPT !.data_num = @ + self.data_num_dict[problem]],
                             Tail(problems), env, counted)

load_data_info(self, files, json_path) ==
    [self EXCEPT !.data_num_dict = files.data_info[json_path].data_num,
                 !.num_classes = files.data_info[json_path].num_classes,
                 !.has = @ \cup {"data_num_dict", "num_classes"}]

\* json.dump(data_info, open(json_path, 'w'))
dump_data_info(self, files, json_path) ==
    [files EXCEPT !.data_info = DictSet(@, json_path,
                     [data_num |-> self.data_num_dict, num_classes |-> self.num_classes])]

get_data_info(self, files, problem_list, base, env) ==
    LET json_path == base
        exists == json_path \in DOMAIN files.data_info
    IN  IF ~exists /\ self.predicting
        THEN IF ~Has(self, "data_num_dict") \/ ~Has(self, "num_classes")
             THEN [self |-> self, fs |-> files, exc |-> "AttributeError", counted |-> <<>>]
             ELSE [self |-> self, fs |-> dump_data_info(self, files, json_path),
                   exc |-> "none", counted |-> <<>>]
        ELSE LET s1 == IF exists THEN load_data_info(self, files, json_path)
                       ELSE [self EXCEPT
                               !.data_num_dict = IF Has(self, "data_num_dict") THEN @
                                                 ELSE EmptyDict,
                               !.num_classes = IF Has(self, "num_classes") THEN @
                                               ELSE EmptyDict,
                               !.has = @ \cup {"data_num_dict", "num_classes"}]
             IN  IF s1.predicting
                 THEN [self |-> s1, fs |-> files, exc |-> "none", counted |-> <<>>]
                 ELSE LET r == count_loop([s1 EXCEPT !.data_num = 0,
                                                     !.has = @ \cup {"data_num"}],
                                          problem_list, env, <<>>)
                      IN  IF r.exc # "none"
                          THEN [self |-> r.self, fs |-> files, exc |-> r.exc,
                                counted |-> r.counted]
                          ELSE [self |-> r.self,
                                fs |-> dump_data_info(r.self, files, json_path),
                                exc |-> "none", counted |-> r.counted]

---------------------------------------------------------------------------
(* get_problem_chunk, set_data_sampling_strategy *)

chunk_str(problem_list) == join(sorted(problem_list), <<"_">>)

RECURSIVE get_problem_chunk_str(_)
get_problem_chunk_str(problem_chunk) ==
    IF problem_chunk = <<>> THEN <<>>
    ELSE <<chunk_str(Head(problem_chunk))>> \o get_problem_chunk_str(Tail(problem_chunk))

\* problem_chunk_data_num[key] += n, on a defaultdict(float)
DictAdd(d, k, n) == DictSet(d, k, (IF k \in DOMAIN d THEN d[k] ELSE 0) + n)

\* problem_chunk_data_num[key] = n where the code adds n.
DictAdd_overwrite(d, k, n) == DictSet(d, k, n)

chunk_data_num_add(d, k, n) == DictAdd(d, k, n)

\* The inner loop of data_balanced over the problems of one chunk.
RECURSIVE data_balanced_chunk(_, _, _, _)
data_balanced_chunk(self, str_per_chunk, problems, acc) ==
    IF problems = <<>> THEN [acc |-> acc, exc |-> "none"]
    ELSE IF ~Has(self, "data_num_dict") THEN [acc |-> acc, exc |-> "AttributeError"]
    ELSE IF Head(problems) \notin DOMAIN self.data_num_dict
    THEN [acc |-> acc, exc |-> "KeyError"]
    ELSE data_balanced_chunk(self, str_per_chunk, Tail(problems),
             chunk_data_num_add(acc, str_per_chunk, self.data_num_dict[Head(problems)]))

RECURSIVE data_balanced(_, _, _)
data_balanced(self, problem_chunk, acc) ==
    IF problem_chunk = <<>> THEN [acc |-> acc, exc |-> "none"]
    ELSE LET r == data_balanced_chunk(self, chunk_str(Head(problem_chunk)),
                                      Head(problem_chunk), acc)
         IN  IF r.exc # "none" THEN r
             ELSE data_balanced(self, Tail(problem_chunk), r.acc)

\* Every chunk counted once, duplicates of a chunk string included.
RECURSIVE problem_balanced_counting(_, _)
problem_balanced_counting(chunk_strs, acc) ==
    IF chunk_strs = <<>> THEN acc
    ELSE problem_balanced_counting(Tail(chunk_strs), DictAdd(acc, Head(chunk_strs), 1))

RECURSIVE problem_balanced(_, _)
problem_balanced(chunk_strs, acc) ==
    IF chunk_strs = <<>> THEN acc
    ELSE problem_balanced(Tail(chunk_strs), DictSet(acc, Head(chunk_strs), 1))

\* The sum of the values of a dict.
RECURSIVE DictSum(_)
DictSum(d) ==
    IF DOMAIN d = {} THEN 0
    ELSE LET k == CHOOSE x \in DOMAIN d : TRUE
         IN  d[k] + DictSum([x \in DOMAIN d \ {k} |-> d[x]])

\* {k: v / sum_across_problems}: each weight as numerator and denominator.
sampling_weights(problem_chunk_data_num) ==
    LET sum_across_problems == DictSum(problem_chunk_data_num)
    IN  IF DOMAIN problem_chunk_data_num # {} /\ sum_across_problems = 0
        THEN [weights |-> EmptyDict, exc |-> "ZeroDivisionError"]
        ELSE [weights |-> [k \in DOMAIN problem_chunk_data_num |->
                             [num |-> problem_chunk_data_num[k],
                              den |-> sum_across_problems]],
              exc |-> "none"]

set_data_sampling_strategy(self, sampling_strategy, sampling_strategy_fn) ==
    IF sampling_strategy_fn # "None" THEN [self |-> self, exc |-> "NotImplementedError"]
    ELSE IF sampling_strategy \notin {"data_balanced", "problem_balanced"}
    THEN [self |-> self, exc |-> "ValueError"]
    ELSE IF ~Has(self, "problem_chunk") THEN [self |-> self, exc |-> "AttributeError"]
    ELSE LET r == IF sampling_strategy = "data_balanced"
                  THEN data_balanced(self, self.problem_chunk, EmptyDict)
                  ELSE [acc |-> problem_balanced(get_problem_chunk_str(self.problem_chunk),
                                                 EmptyDict),
                        exc |-> "none"]
             w == sampling_weights(r.acc)
         IN  IF r.exc # "none" THEN [self |-> self, exc |-> r.exc]
             ELSE IF w.exc # "none" THEN [self |-> self, exc |-> w.exc]
             ELSE [self |-> [self EXCEPT
                               !.problem_sampling_weight_dict = w.weights,
                               !.has = @ \cup {"problem_sampling_weight_dict"}],
                   exc |-> "none"]

---------------------------------------------------------------------------
(* assign_problem *)

\* int(x) of the quotient a / b of two ints, b > 0: towards zero.
int_div(a, b) == IF a >= 0 THEN a \div b ELSE -((-a) \div b)

\* The float 0.1 lies above 1/10; it is kept here as the 20-bit fraction
\* above 1/10, whose error bounds that of the double from above.
TenthNum == 104858
TenthDen == 1048576

\* int(0.1 * n)
int_tenth(n) == (n * TenthNum) \div TenthDen

\* dup_fac of the first problem alone.
dup_fac_first(self, problems) ==
    IF self.problem_type[Head(problems)] = "pretrain" THEN dupe_factor ELSE 1

\* for problem in problem_list: dupe_factor and break at a 'pretrain'
\* problem, 1 at every other.
RECURSIVE dup_fac_loop(_, _)
dup_fac_loop(self, problems) ==
    IF self.problem_type[Head(problems)] = "pretrain" THEN dupe_factor
    ELSE IF Len(problems) = 1 THEN 1
    ELSE dup_fac_loop(self, Tail(problems))

\* self.init_lr * gpu
scaled_lr(gpu) == init_lr * gpu

steps_of(data_num, dup_fac, gpu) ==
    int_div(data_num * train_epoch * dup_fac, batch_size * Max(1, gpu))

\* The block under "if not predicting".
training_plan(self, gpu) ==
    LET train_steps == steps_of(self.data_num, dup_fac_loop(self, self.problem_list), gpu)
    IN  [self EXCEPT
           !.shuffle_buffer = Min(200000, self.data_num),
           !.train_steps = train_steps,
           !.train_steps_per_epoch = int_div(train_steps, train_epoch),
           !.num_warmup_steps = int_tenth(train_steps),
           !.lr = scaled_lr(gpu),
           !.has = @ \cup {"shuffle_buffer", "train_steps", "train_steps_per_epoch",
                           "num_warmup_steps", "lr"}]

assign_problem(self, files, flag_string, gpu, base_dir, dir_name, predicting, env, from_config_exists) ==
    LET s0 == [self EXCEPT
                 !.assigned_details = [kind |-> "tuple", flag_string |-> flag_string,
                                       gpu |-> gpu, base_dir |-> base_dir,
                                       dir_name |-> dir_name, predicting |-> predicting],
                 !.problem_assigned = TRUE,
                 !.predicting = predicting,
                 !.has = @ \cup {"assigned_details", "predicting"}]
        \* self.set_data_sampling_strategy() and the block under it
        step4(r3) ==
            Bind(set_data_sampling_strategy(r3.self, "data_balanced", "None"), LAMBDA r4 :
                IF r4.exc # "none"
                THEN [self |-> r4.self, fs |-> r3.fs, exc |-> r4.exc, counted |-> r3.counted]
                ELSE [self |-> IF predicting THEN r4.self ELSE training_plan(r4.self, gpu),
                      fs |-> r3.fs, exc |-> "none", counted |-> r3.counted])
        \* self.get_data_info(self.problem_list, self.ckpt_dir)
        step3(r2) ==
            Bind(get_data_info(r2.self, r2.fs, r2.self.problem_list, r2.self.ckpt_dir, env),
                 LAMBDA r3 :
                IF r3.exc # "none"
                THEN [self |-> r3.self, fs |-> r3.fs, exc |-> r3.exc, counted |-> r3.counted]
                ELSE step4(r3))
        \* self.prepare_dir(base_dir, dir_name, self.problem_list)
        step2(s1) ==
            Bind(prepare_dir(s1, files, base_dir, dir_name, s1.problem_list,
                             from_config_exists), LAMBDA r2 :
                IF r2.exc # "none"
                THEN [self |-> r2.self, fs |-> r2.fs, exc |-> r2.exc, counted |-> <<>>]
                ELSE step3(r2))
    IN  \* self.problem_list, self.problem_chunk = self.parse_problem_string(flag_string)
        Bind(parse_problem_string(s0, flag_string), LAMBDA r1 :
            IF r1.exc # "none"
            THEN [self |-> r1.self, fs |-> files, exc |-> r1.exc, counted |-> <<>>]
            ELSE Bind([r1.self EXCEPT !.problem_list = r1.problem_list,
                                      !.problem_chunk = r1.problem_chunk,
                                      !.has = @ \cup {"problem_list", "problem_chunk"}],
                      step2))

---------------------------------------------------------------------------
(* update_train_steps *)

\* "if epoch": the truth value of the argument.
epoch_given(epoch) == epoch # <<>> /\ epoch[1] # 0

update_train_steps(self, train_steps_per_epoch, epoch) ==
    LET train_steps == IF epoch_given(epoch) THEN train_steps_per_epoch * epoch[1]
                       ELSE train_steps_per_epoch * train_epoch
    IN  IF ~Has(self, "train_steps")
        THEN \* the log line reads self.train_steps
             [self |-> self, exc |-> "AttributeError"]
        ELSE [self |-> [self EXCEPT
                          !.train_steps = train_steps,
                          !.train_steps_per_epoch = train_steps_per_epoch,
                          !.num_warmup_steps = int_tenth(train_steps),
                          !.has = @ \cup {"train_steps_per_epoch", "num_warmup_steps"}],
              exc |-> "none"]

---------------------------------------------------------------------------
(* to_json, from_json *)

\* The attributes __init__ sets; every other attribute is named by has.
InitAttrs == {"run_problem_list", "problem_type", "read_data_fn", "train_problem",
              "problem_assigned"}

\* The attributes the model keeps a value of.
ValueAttrs == DOMAIN NewParams \ {"has"}

\* Whether json.dumps(att) succeeds: not on the config object, not on a
\* dict that holds a function.
json_serializable(self, att_name) ==
    CASE att_name = "bert_config" -> FALSE
      [] att_name = "read_data_fn" ->
             \A k \in DOMAIN self.read_data_fn : self.read_data_fn[k] = "None"
      [] OTHER -> TRUE

\* What json.load returns for what json.dump wrote: a tuple comes back as
\* a list; str keys, ints, bools, lists and dicts of them come back equal.
json_round_trip(att_name, att) ==
    IF att_name = "assigned_details" THEN [att EXCEPT !.kind = "list"] ELSE att

\* dump_dict of to_json, as json.load reads it back: the names written and
\* their values.
dump_dict(self) ==
    LET names == {a \in InitAttrs \cup self.has : json_serializable(self, a)}
    IN  [attrs |-> names,
         val |-> [a \in ValueAttrs |-> IF a \in names THEN json_round_trip(a, self[a])
                                       ELSE NewParams[a]]]

to_json(self, files) ==
    IF ~Has(self, "params_path") THEN [fs |-> files, exc |-> "AttributeError"]
    ELSE IF self.params_path \notin files.dirs
    THEN [fs |-> files, exc |-> "FileNotFoundError"]
    ELSE [fs |-> [files EXCEPT !.params_json = DictSet(@, self.params_path, dump_dict(self))],
          exc |-> "none"]

\* for att in dump_dict: setattr(self, att, dump_dict[att])
set_attrs(self, doc) ==
    [a \in DOMAIN self |->
        IF a = "has" THEN self.has \cup (doc.attrs \ InitAttrs)
        ELSE IF a \in doc.attrs THEN doc.val[a]
        ELSE self[a]]

\* json_path is None and self.params_path does not exist.
json_path_missing(self, json_path) == json_path = <<>> /\ ~Has(self, "params_path")

\* The arguments of the second assign_problem, taken from the file just
\* loaded instead of the object as it was before the load.
assign_details_loaded(self, s1) == s1.assigned_details

\* assign_details = self.assigned_details, read before the file is loaded
\* (self: the object before the setattr loop, s1: after it).
assign_details(self, s1) == self.assigned_details

from_json(self, files, json_path, env, from_config_exists) ==
    LET params_path == IF json_path # <<>> THEN json_path[1] ELSE self.params_path
        same(exc) == [self |-> self, fs |-> files, exc |-> exc, counted |-> <<>>,
                      read |-> <<>>]
        \* what follows the setattr loop
        loaded(s1) ==
            IF ~Has(s1, "bert_config_dict")
            THEN [self |-> s1, fs |-> files, exc |-> "AttributeError", counted |-> <<>>,
                  read |-> <<params_path>>]
            ELSE IF ~self.problem_assigned
            THEN [self |-> [s1 EXCEPT !.has = @ \cup {"bert_config"}], fs |-> files,
                  exc |-> "none", counted |-> <<>>, read |-> <<params_path>>]
            ELSE LET d == assign_details(self, s1)
                 IN  Bind(assign_problem([s1 EXCEPT !.has = @ \cup {"bert_config"}],
                                         files, d.flag_string, d.gpu, d.base_dir,
                                         d.dir_name, d.predicting, env,
                                         from_config_exists),
                          LAMBDA r : [self |-> r.self, fs |-> r.fs, exc |-> r.exc,
                                      counted |-> r.counted, read |-> <<params_path>>])
    IN  IF json_path_missing(self, json_path) THEN same("AttributeError")
        ELSE IF self.problem_assigned /\ ~Has(self, "assigned_details")
        THEN same("AttributeError")
        ELSE IF params_path \notin DOMAIN files.params_json THEN same("FileNotFoundError")
        ELSE Bind(set_attrs(self, files.params_json[params_path]), loaded)

---------------------------------------------------------------------------
(* The state: the params objects p and q, the file system, and what the    *)
(* properties need of the past: saved[path], the object as it was when     *)
(* to_json wrote path; count_calls[problem], the number of data-counting   *)
(* calls made for the problem; last, the last call and how it ended;       *)
(* calls, the number of calls made.                                        *)

Objects == {"p", "q"}

Init ==
    /\ objs = [o \in Objects |-> NewParams]
    /\ fs = EmptyFs
    /\ saved = EmptyDict
    /\ count_calls = EmptyDict
    /\ last = [op |-> "init", obj |-> "p", exc |-> "none"]
    /\ calls = 0

RECURSIVE count_all(_, _)
count_all(counts, counted) ==
    IF counted = <<>> THEN counts
    ELSE count_all(DictAdd(counts, Head(counted), 1), Tail(counted))

AddProblem(o, problem_name, problem_type, processing_fn) ==
    \E r \in {add_problem(objs[o], problem_name, problem_type, processing_fn)} :
        /\ objs' = [objs EXCEPT ![o] = r.self]
        /\ last' = [op |-> "add_problem", obj |-> o, exc |-> r.exc,
                    problem_name |-> problem_name, problem_type |-> problem_type,
                    processing_fn |-> processing_fn]
        /\ calls' = calls + 1
        /\ UNCHANGED <<fs, saved, count_calls>>

AddMultipleProblems(o, keys, problem_type_dict, processing_fn_dict) ==
    \E r \in {add_multiple_problems(objs[o], keys, problem_type_dict, processing_fn_dict)} :
        /\ objs' = [objs EXCEPT ![o] = r.self]
        /\ last' = [op |-> "add_multiple_problems", obj |-> o, exc |-> r.exc]
        /\ calls' = calls + 1
        /\ UNCHANGED <<fs, saved, count_calls>>

ParseProblemString(o, flag_string) ==
    \E r \in {parse_problem_string(objs[o], flag_string)} :
        /\ objs' = [objs EXCEPT ![o] = r.self]
        /\ last' = [op |-> "parse_problem_string", obj |-> o, exc |-> r.exc,
                    flag_string |-> flag_string,
                    problem_list |-> r.problem_list, problem_chunk |-> r.problem_chunk]
        /\ calls' = calls + 1
        /\ UNCHANGED <<fs, saved, count_calls>>

AssignProblem(o, flag_string, gpu, base_dir, dir_name, predicting, env, from_config_exists) ==
    \E r \in {assign_problem(objs[o], fs, flag_string, gpu, base_dir, dir_name, predicting,
                            env, from_config_exists)} :
        /\ objs' = [objs EXCEPT ![o] = r.self]
        /\ fs' = r.fs
        /\ count_calls' = count_all(count_calls, r.counted)
        /\ last' = [op |-> "assign_problem", obj |-> o, exc |-> r.exc,
                    flag_string |-> flag_string, gpu |-> gpu, predicting |-> predicting,
                    counted |-> r.counted]
        /\ calls' = calls + 1
        /\ UNCHANGED saved

SetDataSamplingStrategy(o, sampling_strategy, sampling_strategy_fn) ==
    \E r \in {set_data_sampling_strategy(objs[o], sampling_strategy, sampling_strategy_fn)} :
        /\ objs' = [objs EXCEPT ![o] = r.self]
        /\ last' = [op |-> "set_data_sampling_strategy", obj |-> o, exc |-> r.exc,
                    sampling_strategy |-> sampling_strategy]
        /\ calls' = calls + 1
        /\ UNCHANGED <<fs, saved, count_calls>>

UpdateTrainSteps(o, train_steps_per_epoch, epoch) ==
    \E r \in {update_train_steps(objs[o], train_steps_per_epoch, epoch)} :
        /\ objs' = [objs EXCEPT ![o] = r.self]
        /\ last' = [op |-> "update_train_steps", obj |-> o, exc |-> r.exc,
                    train_steps_per_epoch |-> train_steps_per_epoch, epoch |-> epoch]
        /\ calls' = calls + 1
        /\ UNCHANGED <<fs, saved, count_calls>>

ToJson(o) ==
    \E r \in {to_json(objs[o], fs)} :
        /\ fs' = r.fs
        /\ saved' = IF r.exc = "none" THEN DictSet(saved, objs[o].params_path, objs[o])
                    ELSE saved
        /\ last' = [op |-> "to_json", obj |-> o, exc |-> r.exc]
        /\ calls' = calls + 1
        /\ UNCHANGED <<objs, count_calls>>

FromJson(o, json_path, env, from_config_exists) ==
    \E r \in {from_json(objs[o], fs, json_path, env, from_config_exists)} :
        /\ objs' = [objs EXCEPT ![o] = r.self]
        /\ fs' = r.fs
        /\ count_calls' = count_all(count_calls, r.counted)
        /\ last' = [op |-> "from_json", obj |-> o, exc |-> r.exc, json_path |-> json_path,
                    read |-> r.read, counted |-> r.counted]
        /\ calls' = calls + 1
        /\ UNCHANGED saved

---------------------------------------------------------------------------
(* The inputs of the calls. *)

NameA == <<"a">>
NameB == <<"b">>
NameC == <<"c">>

\* The results read_data_fn may return: a row count and a class count.
RowCounts == {k * RowUnit : k \in 0..MaxRowUnits}
Counts == [rows : RowCounts, classes : 2..MaxClasses]

\* A flag string of every shape up to MaxFlagLen characters.
FlagChars == {"a", "b", "|", "&"}
FlagStrings == UNION {[1..n -> FlagChars] : n \in 0..MaxFlagLen}

DirD == <<"d">>

---------------------------------------------------------------------------
(* SpecAdd: registering problems. *)

\* The dicts add_multiple_problems is called with.
TypeDicts(names, types) == UNION {[d -> types] : d \in SUBSET names \ {{}}}

\* The keys of a dict over {a, b, c}, in the order they were inserted.
KeysOf(d) == SelectSeq(<<NameA, NameB, NameC>>, LAMBDA n : n \in DOMAIN d)

AddAddProblem ==
    /\ calls < MaxAddCalls
    /\ \E n \in {NameA, NameB}, t \in ProblemTypes \cup {"regression"}, f \in {"None", "f"} :
           AddProblem("p", n, t, f)

AddAddMultipleProblems ==
    /\ calls < MaxAddCalls
    /\ \E td \in TypeDicts({NameA, NameB}, {"seq_tag", "regression"}) :
       \E fd \in {EmptyDict, [n \in {NameA} |-> "f"], [n \in {NameA, NameB} |-> "f"]} :
           AddMultipleProblems("p", KeysOf(td), td, fd)

NextAdd == AddAddProblem \/ AddAddMultipleProblems

SpecAdd == Init /\ [][NextAdd]_vars

---------------------------------------------------------------------------
(* SpecParse: parsing flag strings. *)

ParseAddMultipleProblems ==
    /\ calls < MaxParseCalls
    /\ \E td \in TypeDicts({NameA, NameB}, {"cls", "seq_tag"}) :
           AddMultipleProblems("p", KeysOf(td), td, EmptyDict)

ParseParseProblemString ==
    /\ calls < MaxParseCalls
    /\ \E flag \in FlagStrings : ParseProblemString("p", flag)

NextParse == ParseAddMultipleProblems \/ ParseParseProblemString

SpecParse == Init /\ [][NextParse]_vars

RECURSIVE Flatten(_)
Flatten(ll) == IF ll = <<>> THEN <<>> ELSE Head(ll) \o Flatten(Tail(ll))

Occurrences(x, l) == Cardinality({i \in 1..Len(l) : l[i] = x})

\* l is in ascending order: no element is followed by a smaller one.
Ascending(l) == \A i \in 1..Len(l) : \A j \in i..Len(l) : ~str_lt(l[j], l[i])

\* The flag string the chunks spell: names joined by '&', chunks by '|'.
RECURSIVE Spell(_)
Spell(problem_chunk) ==
    IF problem_chunk = <<>> THEN <<>>
    ELSE join(Head(problem_chunk), <<"&">>)
         \o (IF Len(problem_chunk) = 1 THEN <<>>
             ELSE <<"|">> \o Spell(Tail(problem_chunk)))

C6_AddProblem ==
    [][last'.op = "add_problem" =>
          LET before == objs[last'.obj]
              after == objs'[last'.obj]
              name == last'.problem_name
              valid == last'.problem_type \in
                           {"cls", "seq_tag", "seq2seq_tag", "seq2seq_text", "multi_cls",
                            "pretrain"}
          IN  /\ last'.exc = (IF valid THEN "none" ELSE "ValueError")
              /\ ~valid => after = before
              /\ valid =>
                     /\ DOMAIN after.problem_type = DOMAIN before.problem_type \cup {name}
                     /\ DOMAIN after.read_data_fn = DOMAIN before.read_data_fn \cup {name}
                     /\ after.problem_type[name] = last'.problem_type
                     /\ after.read_data_fn[name] = last'.processing_fn
                     /\ \A x \in DOMAIN before.problem_type \ {name} :
                            after.problem_type[x] = before.problem_type[x]
                     /\ \A x \in DOMAIN before.read_data_fn \ {name} :
                            after.read_data_fn[x] = before.read_data_fn[x]
                     /\ [after EXCEPT !.problem_type = before.problem_type,
                                      !.read_data_fn = before.read_data_fn] = before
    ]_vars

\* A second registration of a name, with another type, beside another
\* registered problem.
C6_Witness ==
    /\ last.op = "add_problem"
    /\ last.exc = "none"
    /\ last.problem_name = NameA
    /\ calls = 3
    /\ DOMAIN objs["p"].problem_type = {NameA, NameB}

---------------------------------------------------------------------------
(* Spec: registering problems and assigning them for training. *)

\* Every problem of the dict with the same counting function.
AllFn(d) == [n \in DOMAIN d |-> "f"]

MainFlags ==
    { <<"a">>, <<"b", "|", "a">>, <<"a", "&", "b">>, <<"a", "|", "a">> }

\* What the processing functions return: every row count, two classes.
MainCounts == {c \in Counts : c.classes = 2}

MainAddMultipleProblems ==
    /\ calls < MaxCalls
    /\ \E td \in TypeDicts({NameA, NameB}, {"cls", "pretrain"}) :
       \E fd \in {EmptyDict, AllFn(td)} :
           AddMultipleProblems("p", KeysOf(td), td, fd)

MainAssignProblem ==
    /\ calls < MaxCalls
    /\ \E flag \in MainFlags, gpu \in 0..MaxGpu, env \in [{NameA, NameB} -> MainCounts] :
           AssignProblem("p", flag, gpu, <<>>, <<DirD>>, FALSE, env, FALSE)

Next == MainAddMultipleProblems \/ MainAssignProblem

Spec == Init /\ [][Next]_vars

\* t is the floor of num / den.
IsFloor(t, num, den) == t * den <= num /\ num < (t + 1) * den

RECURSIVE SumRows(_, _)
SumRows(data_num_dict, problems) ==
    IF problems = <<>> THEN 0
    ELSE data_num_dict[Head(problems)] + SumRows(data_num_dict, Tail(problems))

\* C4: after assign_problem(flag_string, gpu, predicting=False) returns,
\* data_num is the sum of data_num_dict over problem_list, train_steps is
\* the floor of data_num * train_epoch * F / (batch_size * max(1, gpu)) with
\* F = dupe_factor when some problem of problem_list is of type 'pretrain'
\* and 1 otherwise, train_steps_per_epoch is the floor of train_steps /
\* train_epoch, num_warmup_steps the floor of train_steps / 10 and
\* shuffle_buffer the smaller of 200000 and data_num.
C4_TrainingPlan ==
    (last.op = "assign_problem" /\ last.exc = "none" /\ ~last.predicting) =>
        LET self == objs[last.obj]
            F == IF \E i \in 1..Len(self.problem_list) :
                        self.problem_type[self.problem_list[i]] = "pretrain"
                 THEN 10 ELSE 1
            g == IF last.gpu >= 1 THEN last.gpu ELSE 1
        IN  /\ {"data_num", "train_steps", "train_steps_per_epoch", "num_warmup_steps",
                "shuffle_buffer"} \subseteq self.has
            /\ self.data_num = SumRows(self.data_num_dict, self.problem_list)
            /\ IsFloor(self.train_steps, self.data_num * 15 * F, 32 * g)
            /\ IsFloor(self.train_steps_per_epoch, self.train_steps, 15)
            /\ IsFloor(self.num_warmup_steps, self.train_steps, 10)
            /\ self.shuffle_buffer = (IF self.data_num <= 200000 THEN self.data_num
                                      ELSE 200000)

\* Two gpus and a 'pretrain' problem that is not the first of problem_list:
\* every quantity of the plan is positive and no division is exact.
C4_Witness ==
    /\ last.op = "assign_problem" /\ last.exc = "none" /\ ~last.predicting
    /\ last.gpu = 2
    /\ objs["p"].problem_list = <<NameA, NameB>>
    /\ objs["p"].problem_type[NameA] = "cls"
    /\ objs["p"].problem_type[NameB] = "pretrain"
    /\ objs["p"].data_num = 3 * RowUnit
    /\ objs["p"].train_steps_per_epoch > 0
    /\ objs["p"].num_warmup_steps > 0

\* C5: after assign_problem with predicting=False returns, lr is init_lr
\* times the device count the training steps are divided by, max(1, gpu),
\* for every gpu >= 0.
C5_LrScalesWithDevices ==
    (last.op = "assign_problem" /\ last.exc = "none" /\ ~last.predicting
       /\ last.gpu >= 0) =>
        objs[last.obj].lr = 20 * (IF last.gpu >= 1 THEN last.gpu ELSE 1)

---------------------------------------------------------------------------
(* SpecSampling: the sampling weights of the chunks of a flag string. *)

SamplingFlags ==
    { <<"a">>, <<"b", "|", "a">>, <<"a", "&", "b">>, <<"a", "|", "a">>,
      <<"a", "|", "b", "|", "a">> }

ClsAB == [n \in {NameA, NameB} |-> "cls"]

SamplingAddMultipleProblems ==
    /\ calls < MaxSamplingCalls
    /\ AddMultipleProblems("p", KeysOf(ClsAB), ClsAB, AllFn(ClsAB))

SamplingAssignProblem ==
    /\ calls < MaxSamplingCalls
    /\ \E flag \in SamplingFlags, env \in [{NameA, NameB} -> Counts] :
           AssignProblem("p", flag, 1, <<>>, <<DirD>>, FALSE, env, FALSE)

SamplingSetDataSamplingStrategy ==
    /\ calls < MaxSamplingCalls
    /\ \E strategy \in {"data_balanced", "problem_balanced", "task_balanced"} :
       \E fn \in {"None", "f"} :
           SetDataSamplingStrategy("p", strategy, fn)

NextSampling ==
    \/ SamplingAddMultipleProblems
    \/ SamplingAssignProblem
    \/ SamplingSetDataSamplingStrategy

SpecSampling == Init /\ [][NextSampling]_vars

\* set_data_sampling_strategy('data_balanced') has just returned: called
\* itself, or as the last step of an assign_problem for prediction or for
\* training.
AfterDataBalanced ==
    /\ last.exc = "none"
    /\ \/ last.op = "assign_problem"
       \/ last.op = "set_data_sampling_strategy" /\ last.sampling_strategy = "data_balanced"

AfterProblemBalanced ==
    /\ last.exc = "none"
    /\ last.op = "set_data_sampling_strategy"
    /\ last.sampling_strategy = "problem_balanced"

\* The key of a chunk in problem_sampling_weight_dict.
KeyOf(chunk) == join(sorted(chunk), <<"_">>)

\* The rows of the chunks of problem_chunk numbered by idx, together.
RECURSIVE RowsOfChunks(_, _, _)
RowsOfChunks(self, idx, n) ==
    IF n = 0 THEN 0
    ELSE (IF n \in idx THEN SumRows(self.data_num_dict, self.problem_chunk[n]) ELSE 0)
         + RowsOfChunks(self, idx, n - 1)

AllChunks(self) == 1..Len(self.problem_chunk)

TotalRows(self) == RowsOfChunks(self, AllChunks(self), Len(self.problem_chunk))

\* C1 as stated: after set_data_sampling_strategy('data_balanced'), the weight
\* under the key of every chunk is the rows of that chunk over the rows of
\* all chunks.
C1_WeightIsChunkShare ==
    AfterDataBalanced =>
        LET self == objs[last.obj]
        IN  \A i \in AllChunks(self) :
                LET w == self.problem_sampling_weight_dict[KeyOf(self.problem_chunk[i])]
                IN  w.num * TotalRows(self) = RowsOfChunks(self, {i}, i) * w.den

\* C1, amended: after set_data_sampling_strategy('data_balanced'), the
\* weight dict has exactly the keys of the chunks, and the weight under the
\* key of a chunk is the rows of all the chunks that have this key,
\* together, over the rows of all chunks (which are not zero).
C1_WeightIsKeyShare ==
    AfterDataBalanced =>
        LET self == objs[last.obj]
            weights == self.problem_sampling_weight_dict
        IN  /\ DOMAIN weights = {KeyOf(self.problem_chunk[i]) : i \in AllChunks(self)}
            /\ TotalRows(self) > 0
            /\ \A i \in AllChunks(self) :
                   LET key == KeyOf(self.problem_chunk[i])
                       same == {j \in AllChunks(self) : KeyOf(self.problem_chunk[j]) = key}
                   IN  /\ weights[key].den > 0
                       /\ weights[key].num * TotalRows(self)
                            = RowsOfChunks(self, same, Len(self.problem_chunk))
                              * weights[key].den

\* Flag string a|b|a with 25 rows of a and 50 of b: the key a is that of
\* two chunks, and its weight is 50 of 100.
C1_Witness ==
    /\ AfterDataBalanced
    /\ objs["p"].problem_chunk = <<<<NameA>>, <<NameB>>, <<NameA>>>>
    /\ objs["p"].data_num_dict[NameA] = RowUnit
    /\ objs["p"].data_num_dict[NameB] = 2 * RowUnit
    /\ objs["p"].problem_sampling_weight_dict[NameA].num = 2 * RowUnit

\* C2 as stated: after set_data_sampling_strategy('problem_balanced'), the
\* weight of every chunk is 1 over the number of chunks.
C2_WeightIsOneOverChunks ==
    AfterProblemBalanced =>
        LET self == objs[last.obj]
        IN  \A i \in AllChunks(self) :
                LET w == self.problem_sampling_weight_dict[KeyOf(self.problem_chunk[i])]
                IN  w.num * Len(self.problem_chunk) = w.den

\* C2, amended: after set_data_sampling_strategy('problem_balanced'), the
\* weight dict has exactly the keys of the chunks and every weight is 1 over
\* the number of distinct keys, whatever the row counts are.
C2_WeightIsOneOverKeys ==
    AfterProblemBalanced =>
        LET self == objs[last.obj]
            weights == self.problem_sampling_weight_dict
            keys == {KeyOf(self.problem_chunk[i]) : i \in AllChunks(self)}
        IN  /\ DOMAIN weights = keys
            /\ \A k \in keys : weights[k].den > 0
                               /\ weights[k].num * Cardinality(keys) = weights[k].den

\* problem_balanced on a|b|a with unequal row counts: three chunks, two keys.
C2_Witness ==
    /\ AfterProblemBalanced
    /\ objs["p"].problem_chunk = <<<<NameA>>, <<NameB>>, <<NameA>>>>
    /\ objs["p"].data_num_dict[NameA] = RowUnit
    /\ objs["p"].data_num_dict[NameB] = 2 * RowUnit
    /\ objs["p"].problem_sampling_weight_dict[NameB].den = 2

---------------------------------------------------------------------------
(* SpecUpdate: update_train_steps after an assignment. *)

UpdateAddMultipleProblems ==
    /\ calls < MaxUpdateCalls
    /\ AddMultipleProblems("p", KeysOf(ClsAB), ClsAB, AllFn(ClsAB))

UpdateAssignProblem ==
    /\ calls < MaxUpdateCalls
    /\ \E flag \in {<<"a">>, <<"a", "|", "b">>}, predicting \in BOOLEAN :
       \E env \in [{NameA, NameB} -> Counts] :
           AssignProblem("p", flag, 1, <<>>, <<DirD>>, predicting, env, FALSE)

UpdateUpdateTrainSteps ==
    /\ calls < MaxUpdateCalls
    /\ \E n \in 0..MaxSteps, epoch \in {<<>>} \cup {<<e>> : e \in 0..MaxEpoch} :
           UpdateTrainSteps("p", n, epoch)

NextUpdate == UpdateAddMultipleProblems \/ UpdateAssignProblem \/ UpdateUpdateTrainSteps

SpecUpdate == Init /\ [][NextUpdate]_vars

\* C10: update_train_steps(n, epoch), where it returns, sets
\* train_steps_per_epoch to n, train_steps to n * epoch when an epoch is
\* passed (zero included) and to n * train_epoch when it is omitted, and
\* num_warmup_steps to the floor of train_steps / 10, and changes no other
\* attribute.
C10_UpdateTrainSteps ==
    [][(last'.op = "update_train_steps" /\ last'.exc = "none") =>
          LET before == objs[last'.obj]
              after == objs'[last'.obj]
              n == last'.train_steps_per_epoch
              epoch == last'.epoch
          IN  /\ after.train_steps_per_epoch = n
              /\ after.train_steps = (IF epoch # <<>> THEN n * epoch[1] ELSE n * 15)
              /\ IsFloor(after.num_warmup_steps, after.train_steps, 10)
              /\ [after EXCEPT !.train_steps_per_epoch = before.train_steps_per_epoch,
                               !.train_steps = before.train_steps,
                               !.num_warmup_steps = before.num_warmup_steps] = before
    ]_vars

---------------------------------------------------------------------------
(* SpecData: assignments for training that share one checkpoint directory. *)

ClsABC == [n \in {NameA, NameB, NameC} |-> "cls"]

\* The counting function of c is missing (processing_fn=None), or every
\* problem has one.
DataFnDicts ==
    { [n \in {NameA, NameB, NameC} |-> IF n = NameC THEN "None" ELSE "f"],
      AllFn(ClsABC) }

DataFlags ==
    { <<"a">>, <<"b">>, <<"b", "|", "c">>, <<"a", "|", "b", "|", "c">> }

\* Counts that are not zero.
DataCounts == {c \in Counts : c.rows > 0}

DataAddMultipleProblems ==
    /\ calls < MaxDataCalls
    /\ \E fd \in DataFnDicts : AddMultipleProblems("p", KeysOf(ClsABC), ClsABC, fd)

DataAssignProblem ==
    /\ calls < MaxDataCalls
    /\ \E flag \in DataFlags, env \in [{NameA, NameB, NameC} -> DataCounts] :
           AssignProblem("p", flag, 1, <<>>, <<DirD>>, FALSE, env, FALSE)

NextData == DataAddMultipleProblems \/ DataAssignProblem

SpecData == Init /\ [][NextData]_vars

\* C9: across assign_problem calls with predicting=False on one checkpoint
\* directory, the counting function of a problem is called only when the
\* problem has no entry in data_num_dict as reloaded from data_info.json,
\* and at most once per problem; a row count or class count once recorded is
\* neither changed nor removed by a later call; and after a call that
\* returns, data_info.json holds data_num_dict and num_classes.
C9_CountedOnce ==
    [][last'.op = "assign_problem" =>
          LET before == objs[last'.obj]
              after == objs'[last'.obj]
              path == after.ckpt_dir
              known == IF path \in DOMAIN fs.data_info
                       THEN DOMAIN fs.data_info[path].data_num
                       ELSE DOMAIN before.data_num_dict
          IN  /\ \A x \in Range(last'.counted) : x \notin known
              /\ \A x \in DOMAIN count_calls' : count_calls'[x] <= 1
              /\ \A x \in DOMAIN before.data_num_dict :
                     /\ x \in DOMAIN after.data_num_dict
                     /\ after.data_num_dict[x] = before.data_num_dict[x]
              /\ \A x \in DOMAIN before.num_classes :
                     /\ x \in DOMAIN after.num_classes
                     /\ after.num_classes[x] = before.num_classes[x]
              /\ last'.exc = "none" =>
                     /\ path \in DOMAIN fs'.data_info
                     /\ fs'.data_info[path].data_num = after.data_num_dict
                     /\ fs'.data_info[path].num_classes = after.num_classes
    ]_vars

\* What holds of C9 whatever the calls do: a problem is counted only when
\* the reloaded data_num_dict has no entry of it, and a call that returns
\* leaves data_num_dict and num_classes in data_info.json.
C9_CountedOnlyWhenUnknown ==
    [][last'.op = "assign_problem" =>
          LET before == objs[last'.obj]
              after == objs'[last'.obj]
              path == after.ckpt_dir
              known == IF path \in DOMAIN fs.data_info
                       THEN DOMAIN fs.data_info[path].data_num
                       ELSE DOMAIN before.data_num_dict
          IN  /\ \A x \in Range(last'.counted) : x \notin known
              /\ last'.exc = "none" =>
                     /\ path \in DOMAIN fs'.data_info
                     /\ fs'.data_info[path].data_num = after.data_num_dict
                     /\ fs'.data_info[path].num_classes = after.num_classes
    ]_vars

---------------------------------------------------------------------------
(* SpecJson: two params objects, saving and loading params.json. *)

PathD == path_join("models", DirD)

\* One result of the counting functions.
JsonEnv == [n \in {NameA, NameB} |-> [rows |-> RowUnit, classes |-> 2]]

JsonAddProblem ==
    /\ calls < MaxJsonCalls
    /\ \E o \in Objects, f \in {"None", "f"} : AddProblem(o, NameA, "cls", f)

JsonAssignProblem ==
    /\ calls < MaxJsonCalls
    /\ \E o \in Objects, flag \in {<<"a">>, <<"b">>}, predicting \in BOOLEAN :
           AssignProblem(o, flag, 1, <<>>, <<DirD>>, predicting, JsonEnv, FALSE)

JsonToJson ==
    /\ calls < MaxJsonCalls
    /\ \E o \in Objects : ToJson(o)

JsonFromJson ==
    /\ calls < MaxJsonCalls
    /\ \E o \in Objects, json_path \in {<<>>, <<PathD>>} :
           FromJson(o, json_path, JsonEnv, FALSE)

NextJson == JsonAddProblem \/ JsonAssignProblem \/ JsonToJson \/ JsonFromJson

SpecJson == Init /\ [][NextJson]_vars

\* C7: when q, with no problem assigned, loads with from_json(path) the
\* params.json that p.to_json() wrote, every attribute of p that json can
\* hold (read_data_fn apart) has on q the value it had on p when saved, as
\* json holds it; read_data_fn is not in the file and q keeps its own.
C7_RoundTrip ==
    [][(/\ last'.op = "from_json"
        /\ last'.exc = "none"
        /\ last'.json_path # <<>>
        /\ ~objs[last'.obj].problem_assigned) =>
          LET q == objs[last'.obj]
              after == objs'[last'.obj]
              path == last'.json_path[1]
              p == saved[path]
              held == {a \in (InitAttrs \cup p.has) \ {"read_data_fn"} :
                          json_serializable(p, a)}
          IN  /\ \A a \in held \cap ValueAttrs : after[a] = json_round_trip(a, p[a])
              /\ \A a \in held \ InitAttrs : a \in after.has
              /\ "read_data_fn" \notin fs.params_json[path].attrs
              /\ after.read_data_fn = q.read_data_fn
    ]_vars

\* C8: from_json(json_path=None) raises AttributeError and changes nothing
\* whenever problem_assigned is False; with problem_assigned True it reads
\* from params_path.
C8_FromJsonNone ==
    [][(last'.op = "from_json" /\ last'.json_path = <<>>) =>
          LET before == objs[last'.obj]
              after == objs'[last'.obj]
          IN  /\ ~before.problem_assigned =>
                     (last'.exc = "AttributeError" /\ after = before /\ fs' = fs)
              /\ before.problem_assigned =>
                     /\ Has(before, "params_path")
                     /\ before.params_path \in DOMAIN fs.params_json =>
                            last'.read = <<before.params_path>>
    ]_vars

\* The half of C8 that holds: an object that has a params_path has
\* problem_assigned True, so that from_json(None) on an object with
\* problem_assigned False raises AttributeError.
C8_PathOnlyWhenAssigned ==
    \A o \in Objects : Has(objs[o], "params_path") => objs[o].problem_assigned

---------------------------------------------------------------------------
(* SpecReload: objects that are assigned, saved, and loaded from a file    *)
(* another assignment wrote.                                               *)

\* Registrations of a and b: a is 'cls' in one and 'pretrain' in the other.
ReloadTypeDicts ==
    { [n \in {NameA, NameB} |-> "cls"],
      [n \in {NameA, NameB} |-> IF n = NameA THEN "pretrain" ELSE "cls"] }

\* (flag_string, gpu, predicting) of the assign_problem calls.
ReloadAssignments ==
    { [flag_string |-> <<"a">>, gpu |-> 1, predicting |-> FALSE],
      [flag_string |-> <<"b", "|", "a">>, gpu |-> 2, predicting |-> FALSE],
      [flag_string |-> <<"a">>, gpu |-> 1, predicting |-> TRUE] }

ReloadAddMultipleProblems ==
    /\ calls < MaxReloadCalls
    /\ \E o \in Objects, td \in ReloadTypeDicts :
           AddMultipleProblems(o, KeysOf(td), td, AllFn(td))

ReloadAssignProblem ==
    /\ calls < MaxReloadCalls
    /\ \E o \in Objects, a \in ReloadAssignments :
           AssignProblem(o, a.flag_string, a.gpu, <<>>, <<DirD>>, a.predicting, JsonEnv,
                         FALSE)

ReloadToJson ==
    /\ calls < MaxReloadCalls
    /\ \E o \in Objects : ToJson(o)

ReloadFromJson ==
    /\ calls < MaxReloadCalls
    /\ \E o \in Objects, json_path \in {<<>>, <<PathD>>} :
           FromJson(o, json_path, JsonEnv, FALSE)

NextReload ==
    ReloadAddMultipleProblems \/ ReloadAssignProblem \/ ReloadToJson \/ ReloadFromJson

SpecReload == Init /\ [][NextReload]_vars

\* The attributes an assignment sets from its flag string and arguments.
AssignmentAttrs ==
    {"assigned_details", "predicting", "problem_str", "problem_list", "problem_chunk",
     "run_problem_list"}

\* C11 as stated: when from_json(path) returns on an object whose
\* assign_problem has succeeded (here: as the call before), assigned_details,
\* predicting, problem_str, problem_list, problem_chunk and run_problem_list
\* are those of that assignment; when no problem was assigned before the
\* call, assign_problem is not run (no file is written, nothing is counted).
C11_ReloadKeepsAssignment ==
    [][(last'.op = "from_json" /\ last'.exc = "none") =>
          LET before == objs[last'.obj]
              after == objs'[last'.obj]
          IN  /\ (last.op = "assign_problem" /\ last.exc = "none"
                    /\ last.obj = last'.obj) =>
                     \A a \in AssignmentAttrs : after[a] = before[a]
              /\ ~before.problem_assigned =>
                     (fs' = fs /\ count_calls' = count_calls)
    ]_vars

\* C11, amended: when from_json(path) returns on an object with a problem
\* assigned, assign_problem has run again with the arguments the object held
\* in assigned_details before the load: assigned_details, predicting and
\* problem_str are those arguments', problem_chunk spells that flag string,
\* problem_list is its names in ascending order, and run_problem_list maps
\* each problem of each chunk to the type the loaded file registers for it;
\* after an assign_problem that succeeded as the call before, all of these
\* but run_problem_list are as that assignment left them.  When no problem
\* was assigned before the call, assign_problem is not run: no file is
\* written, nothing is counted, and the six attributes are those stored in
\* the file (assigned_details as the list json makes of the tuple).
C11_ReloadRunsAssignAgain ==
    [][(last'.op = "from_json" /\ last'.exc = "none") =>
          LET before == objs[last'.obj]
              after == objs'[last'.obj]
              file == saved[last'.read[1]]
              d == before.assigned_details
              chunk == after.problem_chunk
              plist == after.problem_list
              rpl == after.run_problem_list
              flat == Flatten(chunk)
          IN  /\ before.problem_assigned =>
                     /\ after.assigned_details = [d EXCEPT !.kind = "tuple"]
                     /\ after.predicting = d.predicting
                     /\ after.problem_str = d.flag_string
                     /\ Spell(chunk) = d.flag_string
                     /\ \A x \in Range(flat) : "&" \notin Range(x) /\ "|" \notin Range(x)
                     /\ Ascending(plist)
                     /\ Len(plist) = Len(flat)
                     /\ \A x \in Range(flat) \cup Range(plist) :
                            Occurrences(x, plist) = Occurrences(x, flat)
                     /\ Len(rpl) = Len(chunk)
                     /\ \A i \in 1..Len(chunk) :
                            /\ DOMAIN rpl[i] = Range(chunk[i])
                            /\ \A x \in Range(chunk[i]) : rpl[i][x] = file.problem_type[x]
              /\ (last.op = "assign_problem" /\ last.exc = "none"
                    /\ last.obj = last'.obj) =>
                     \A a \in AssignmentAttrs \ {"run_problem_list"} :
                         after[a] = before[a]
              /\ ~before.problem_assigned =>
                     /\ fs' = fs
                     /\ count_calls' = count_calls
                     /\ \A a \in AssignmentAttrs \cap (InitAttrs \cup file.has) :
                            after[a] = json_round_trip(a, file[a])
    ]_vars

\* q, assigned "b|a" on two gpus, has loaded the file that an assignment of
\* "a" wrote, in which a is a 'pretrain' problem: q holds its own arguments
\* again and a's type is the file's.
C11_Witness ==
    /\ last.op = "from_json" /\ last.exc = "none" /\ last.obj = "q"
    /\ last.read = <<PathD>>
    /\ saved[PathD].assigned_details.flag_string = <<"a">>
    /\ saved[PathD].problem_type[NameA] = "pretrain"
    /\ objs["q"].assigned_details.kind = "tuple"
    /\ objs["q"].assigned_details.flag_string = <<"b", "|", "a">>
    /\ objs["q"].assigned_details.gpu = 2
    /\ objs["q"].problem_list = <<NameA, NameB>>
    /\ objs["q"].run_problem_list[2][NameA] = "pretrain"

====
